---- MODULE Spec2Model ----
(***************************************************************************)
(* Model of the generic Monte Carlo Tree Search engine of src/src/game.rs  *)
(* (Mcts<G: Game>, MctsTree, uct, MoveScore) driven by two games that      *)
(* implement the Game trait:                                               *)
(*   "grid"  - TicTacToe of src/src/tictactoe.rs, IS_PERFECT_INFORMATION   *)
(*             = true;                                                     *)
(*   "cards" - a small card game with IS_PERFECT_INFORMATION = false whose *)
(*             clone re-deals the hidden hands, so that the legal moves at *)
(*             a tree position differ between iterations.                  *)
(* Three specifications share the variables: Spec, one best_move call on a *)
(* fresh engine; SpecEngine, several best_move calls on one engine;        *)
(* SpecGame, a game without an engine (TicTacToe, or Uno of                *)
(* src/src/uno.rs) whose caller calls place_move with any move.            *)
(* Scores are f32 multiples of 0.5 in the source; the model stores twice   *)
(* the score as an integer (1.0 -> 2, -3.0 -> -6, 0.5 -> 1), which is      *)
(* exact for every sum the engine forms.  NodeId(n) is the number n;       *)
(* nodes[n + 1] and children[n + 1] are its entries.                       *)
(***************************************************************************)
EXTENDS Integers, Sequences, FiniteSets, TLC

VARIABLES
    nodes,         \* MctsTree.nodes: sequence of [placement_move, score, visits]
    children,      \* MctsTree.children: sequence of sequences of NodeId
    base_game,     \* the base_game argument of best_move
    player_id,     \* Mcts.player_id
    iterations,    \* the iterations argument of best_move
    iter,          \* number of completed passes of the for loop of best_move
    pc,            \* position inside best_move
    game,          \* the clone `game` of the current iteration
    selected,      \* the traversal select builds and returns
    pending_move_diff, \* select's pending_move_diff: [some, v]
    acc_score,     \* rollout's running total / rollout_score once it returned
    result,        \* what best_move returned
    scan,          \* history: the nodes with children that select looked at
    place_log,     \* history: the place_move calls of the current iteration
    prev_nodes,    \* history: nodes as they were before the last backpropagate
    calls,         \* number of best_move calls begun on this engine
    terminated     \* history of a game driven by its caller: a place_move call
                   \* on `game` has returned a terminal outcome

vars == <<nodes, children, base_game, player_id, iterations, iter, pc, game,
          selected, pending_move_diff, acc_score, result, scan, place_log,
          prev_nodes, calls, terminated>>

(***************************************************************************)
(* Bounds of the model.                                                    *)
(***************************************************************************)
MaxIter == 5        \* largest iteration budget passed to best_move, grid game
MaxCardsIter == 3   \* largest iteration budget passed to best_move, card game
MaxCalls == 2       \* most best_move calls made on one engine
MaxReuseIter == 3   \* most iterations run on one engine, all its calls together
MaxUnoDepth == 4    \* most successful place_move calls on one Uno game
MaxTreeNodes == 4   \* most nodes of a tree grown by direct add_child calls

(***************************************************************************)
(* Generic helpers.                                                        *)
(***************************************************************************)
Contains(s, x) == \E i \in 1..Len(s) : s[i] = x

Last(s) == s[Len(s)]

RECURSIVE SumSeq(_)
SumSeq(s) == IF Len(s) = 0 THEN 0 ELSE s[1] + SumSeq(Tail(s))

Abs(x) == IF x < 0 THEN -x ELSE x

(***************************************************************************)
(* MoveScore (game.rs:13-34).                                              *)
(***************************************************************************)
Terminal(s) == [tag |-> "Terminal", s |-> s]
NonTerminal(s) == [tag |-> "NonTerminal", s |-> s]
MoveScoreNone == [tag |-> "None", s |-> 0]

\* Variant used to test the properties: no outcome counts as terminal.
is_terminal_never(ms) == FALSE

is_terminal(ms) == ms.tag = "Terminal"

score(ms) == IF ms.tag = "None" THEN 0 ELSE ms.s

(***************************************************************************)
(* TicTacToe (tictactoe.rs).  board[i + 1] is cell i: 0 = None, 1 =        *)
(* Some(true) (first player), 2 = Some(false).                             *)
(***************************************************************************)
\* Variant used to test the properties: every mark counts 1, whoever made it.
cell_score_unsigned(c) == IF c = 0 THEN 0 ELSE 1

cell_score(c) == IF c = 0 THEN 0 ELSE IF c = 1 THEN 1 ELSE -1

ttt_possible_moves(g) ==
    LET Free(i) == g.board[i + 1] = 0
    IN SelectSeq(<<0, 1, 2, 3, 4, 5, 6, 7, 8>>, Free)

ttt_end_state(g) ==
    LET sc(p) == cell_score(g.board[p + 1])
        diag == \E c \in {<<0, 4, 8>>, <<2, 4, 6>>} :
                    Abs(sc(c[1]) + sc(c[2]) + sc(c[3])) = 3
        h(a) == sc(a * 3) + sc(a * 3 + 1) + sc(a * 3 + 2)
        v(a) == sc(a) + sc(3 + a) + sc(6 + a)
        hv == \E a \in 0..2 : Abs(h(a)) = 3 \/ Abs(v(a)) = 3
    IN IF diag THEN "Win"
       ELSE IF hv THEN "Win"
       ELSE IF Len(ttt_possible_moves(g)) = 0 THEN "Draw"
       ELSE "Continue"

\* What place_move returned: Ok(state) and the game after the call, or Err
\* with the message of its anyhow! and the game as the call left it.
PlaceOk(g, state) == [ok |-> TRUE, err |-> "", game |-> g, state |-> state]

PlaceErr(g, msg) == [ok |-> FALSE, err |-> msg, game |-> g, state |-> "Err"]

\* tictactoe.rs:103-114: the mark of the player on turn is written, then the
\* game goes on with the other player or ends.
ttt_mark(g, movement) ==
    LET placed == [g EXCEPT !.board[movement + 1] =
                                IF g.first_player_turn THEN 1 ELSE 2]
        end_state == ttt_end_state(placed)
    IN IF end_state = "Continue"
       THEN PlaceOk([placed EXCEPT !.first_player_turn = ~g.first_player_turn],
                    "Continue")
       ELSE PlaceOk([placed EXCEPT !.game_ended = TRUE], end_state)

\* Variant used to test the properties: a taken cell is written over.
ttt_place_on_board_overwrites(g, movement) ==
    IF ~(movement \in 0..8) THEN PlaceErr(g, "invalid position provided")
    ELSE ttt_mark(g, movement)

\* tictactoe.rs:98-116.
ttt_place_on_board(g, movement) ==
    IF ~(movement \in 0..8) THEN PlaceErr(g, "invalid position provided")
    ELSE IF g.board[movement + 1] # 0
    THEN PlaceErr(g, "move already exists at position")
    ELSE ttt_mark(g, movement)

\* Variant used to test the properties: no test of game_ended.
ttt_place_move_unguarded(g, movement) == ttt_place_on_board(g, movement)

ttt_place_move(g, movement) ==
    IF g.game_ended THEN PlaceErr(g, "game has ended")
    ELSE ttt_place_on_board(g, movement)

\* tictactoe.rs returns Option<f32>; Some(x) is the terminal score, None "not
\* terminal" (the doc comment of Game::score_state, game.rs:45-46).
ttt_score_state(g, state, player) ==
    IF state = "Win" THEN Terminal(IF g.first_player_turn = player THEN 2 ELSE -6)
    ELSE IF state = "Draw" THEN Terminal(1)
    ELSE MoveScoreNone

(***************************************************************************)
(* The card game: an implementor of the Game trait with                    *)
(* IS_PERFECT_INFORMATION = false.  deal[p + 1] is the list of legal moves *)
(* at ply p (the hand that is on turn there); players 0 and 1 alternate;   *)
(* the game ends after the last ply and the player who moved last wins.    *)
(* Moves: 1 = play-red-5, 2 = play-blue-2, 3 = draw.                       *)
(***************************************************************************)
\* The deals a clone can hold: <<hand at ply 0, hand at ply 1>>.
Deals ==
    {<<<<1, 3>>, <<2>>>>, <<<<1, 2, 3>>, <<2>>>>, <<<<2>>, <<1, 3>>>>}

cards_possible_moves(g) ==
    IF g.game_ended \/ g.ply >= Len(g.deal) THEN <<>> ELSE g.deal[g.ply + 1]

cards_place_move(g, movement) ==
    IF g.game_ended THEN PlaceErr(g, "game has ended")
    ELSE IF ~Contains(cards_possible_moves(g), movement)
    THEN PlaceErr(g, "move specified is invalid")
    ELSE IF g.ply + 1 = Len(g.deal)
    THEN PlaceOk([g EXCEPT !.ply = g.ply + 1, !.game_ended = TRUE,
                           !.last_move = movement],
                 "Win")
    ELSE PlaceOk([g EXCEPT !.ply = g.ply + 1, !.last_move = movement], "Continue")

\* Win: 1.0 for the evaluating player, 0.0 otherwise (as uno.rs:335); a
\* continuing play of the red 5 is credited an intermediate reward of 0.5.
cards_score_state(g, state, player) ==
    IF state = "Win" THEN Terminal(IF (g.ply - 1) % 2 = player THEN 2 ELSE 0)
    ELSE IF g.last_move = 1 THEN NonTerminal(1)
    ELSE MoveScoreNone

(***************************************************************************)
(* Uno (uno.rs).  A Card is [t, c, n]: Number(c, n), Draw(c, n),           *)
(* Reverse(c) and Skip(c) (n = 0), Wild(n) (c = "-").  A PlayerMove has    *)
(* the same shape; Wild(c, n) carries the colour the player names and      *)
(* ActionDraw is a move without a card.  A HashMap<Card, u8> is a function *)
(* from the cards of the deck handed to Uno::new to their counts; a key    *)
(* that a hand does not hold yet counts 0 (every read of a hand filters    *)
(* n > 0).  player_cards[p + 1] is the hand of player p.  The order in     *)
(* which a HashMap is iterated is not fixed, so possible_moves is the set  *)
(* of the moves of the Vec it returns; the cards drawn are random, so a    *)
(* drawing operation is the set of the outcomes it can have.               *)
(***************************************************************************)
Colours == {"Red", "Yellow", "Green", "Blue"}

Card(t, c, n) == [t |-> t, c |-> c, n |-> n]

ActionDraw == [t |-> "ActionDraw", c |-> "-", n |-> 0]

\* PlayerMove::default() (uno.rs:57-61).
uno_default_move == Card("Number", "Red", 255)

\* PlayerMove::as_card (uno.rs:35-44): None for ActionDraw.
as_card(m) ==
    IF m.t = "ActionDraw" THEN [some |-> FALSE, v |-> m]
    ELSE IF m.t = "Wild" THEN [some |-> TRUE, v |-> Card("Wild", "-", m.n)]
    ELSE [some |-> TRUE, v |-> m]

RECURSIVE count_cards(_, _)
count_cards(h, cards) ==
    IF cards = {} THEN 0
    ELSE LET c == CHOOSE x \in cards : TRUE
         IN h[c] + count_cards(h, cards \ {c})

player_card_count(g, player) ==
    count_cards(g.player_cards[player + 1], DOMAIN g.player_cards[player + 1])

shift_purgatory_into_stack(g) ==
    IF Len(g.card_purgatory) > 1
    THEN [g EXCEPT !.card_purgatory = <<Last(g.card_purgatory)>>,
                   !.deck = [c \in DOMAIN g.deck |->
                                g.deck[c] + Cardinality({i \in 1..(Len(g.card_purgatory) - 1) :
                                                             g.card_purgatory[i] = c})]]
    ELSE g

\* random_weighted_card (uno.rs:138-157): a card of positive count, a number
\* card when number_only; None when the deck holds no such card.
valid_cards(g, number_only) ==
    {c \in DOMAIN g.deck : g.deck[c] > 0 /\ (number_only => c.t = "Number")}

\* draw_hand (uno.rs:114-136), its loop with `left` cards still to draw: the
\* outcomes [ok, game, hand]; on Err the cards drawn so far are in neither.
RECURSIVE draw_hand_loop(_, _, _, _, _)
draw_hand_loop(g, hand, left, number_only, failed_once) ==
    IF left <= 0 THEN {[ok |-> TRUE, game |-> g, hand |-> hand]}
    ELSE IF valid_cards(g, number_only) # {}
    THEN UNION {draw_hand_loop([g EXCEPT !.deck[c] = @ - 1],
                               [hand EXCEPT ![c] = @ + 1],
                               left - 1, number_only, failed_once) :
                    c \in valid_cards(g, number_only)}
    ELSE IF failed_once
    THEN {[ok |-> FALSE, game |-> shift_purgatory_into_stack(g), hand |-> hand]}
    ELSE draw_hand_loop(shift_purgatory_into_stack(g), hand, left, number_only, TRUE)

draw_hand(g, cards, number_only) ==
    draw_hand_loop(g, [c \in DOMAIN g.deck |-> 0], cards, number_only, FALSE)

\* The outcome of a step of place_move that can fail: Ok and the game after
\* it, or Err with its message and the game as the step left it.
StepOk(g) == [ok |-> TRUE, err |-> "", game |-> g]

StepErr(g, msg) == [ok |-> FALSE, err |-> msg, game |-> g]

draw_card_for_player(g, player, cards) ==
    {IF ~d.ok THEN StepErr(d.game, "not enough cards to deal hand")
     ELSE IF player >= Len(d.game.player_cards) THEN StepErr(d.game, "invalid player")
     ELSE StepOk([d.game EXCEPT !.player_cards[player + 1] =
                                    [c \in DOMAIN @ |-> @[c] + d.hand[c]]]) :
         d \in draw_hand(g, cards, FALSE)}

\* Uno::new (uno.rs:77-98): the games it can return; a deal that fails, or a
\* deck without a number card for the first card, panics instead.
RECURSIVE uno_deal(_, _, _)
uno_deal(gs, player, initial_player_cards) ==
    IF gs = {} THEN {}
    ELSE LET num_players == Len((CHOOSE g \in gs : TRUE).player_cards)
             dealt == UNION {draw_card_for_player(g, player, initial_player_cards) :
                                 g \in gs}
         IN IF player >= num_players THEN gs
            ELSE uno_deal({d.game : d \in {x \in dealt : x.ok}}, player + 1,
                          initial_player_cards)

uno_new(deck, num_players, initial_player_cards) ==
    LET o == [kind |-> "uno", deck |-> deck, player_turn |-> 0,
              player_cards |-> [p \in 1..num_players |-> [c \in DOMAIN deck |-> 0]],
              reversed |-> FALSE, card_purgatory |-> <<>>,
              last_play |-> uno_default_move, depth |-> 0]
        firsts(g) == {d \in draw_hand(g, 1, TRUE) : d.ok}
        first_card(d) == CHOOSE c \in DOMAIN d.hand : d.hand[c] > 0
    IN UNION {{[d.game EXCEPT !.last_play = first_card(d),
                              !.card_purgatory = <<first_card(d)>>] : d \in firsts(g)} :
                  g \in uno_deal({o}, 0, initial_player_cards)}

\* update_move (uno.rs:191-200) with the card of as_card.
update_move(g, card, pmove) ==
    IF ~card.some THEN StepOk(g)
    ELSE IF g.player_cards[g.player_turn + 1][card.v] = 0
    THEN StepErr(g, "card does not exist in player deck")
    ELSE StepOk([g EXCEPT !.player_cards[g.player_turn + 1][card.v] = @ - 1,
                          !.card_purgatory = Append(@, card.v),
                          !.last_play = pmove])

\* next_player (uno.rs:202-208).
next_player(g, scale) ==
    LET rev == IF g.reversed THEN -1 ELSE 1
        num_players == Len(g.player_cards)
        next_turn == g.player_turn + scale * rev
    IN [g EXCEPT !.player_turn = ((next_turn % num_players) + num_players) % num_players]

\* Uno::possible_moves (uno.rs:220-269).
uno_possible_moves(g) ==
    LET player_deck == g.player_cards[g.player_turn + 1]
        number_cards_in_deck == player_card_count(g, g.player_turn)
        is_last_card == number_cards_in_deck = 1
        last_move_colour == g.last_play.c
        moves_of(card) ==
            IF card.t = "Number"
            THEN IF last_move_colour = card.c THEN {card}
                 ELSE IF g.last_play.t = "Number" /\ card.n = g.last_play.n THEN {card}
                 ELSE {}
            ELSE IF card.t \in {"Draw", "Reverse", "Skip"}
            THEN IF last_move_colour = card.c /\ ~is_last_card THEN {card} ELSE {}
            ELSE IF ~is_last_card THEN {Card("Wild", c, card.n) : c \in Colours}
            ELSE {}
        moves == UNION {moves_of(card) : card \in {c \in DOMAIN player_deck :
                                                       player_deck[c] > 0}}
    IN IF number_cards_in_deck = 0 THEN {}
       ELSE IF moves = {} THEN {ActionDraw}
       ELSE moves

\* Uno::place_move, uno.rs:287-311: what a pending Draw or Wild on top of the
\* stack makes of the move; outcomes [ok, err, game, handled].
uno_pending_stage(g, movement) ==
    LET c == g.last_play.c
        pending_cards == g.last_play.n
        stacked(pmove) ==
            LET u == update_move(g, as_card(movement), pmove)
            IN {[ok |-> u.ok, err |-> u.err, game |-> u.game, handled |-> u.ok]}
        drawn(n) ==
            {[ok |-> d.ok, err |-> d.err, game |-> d.game, handled |-> FALSE] :
                 d \in draw_card_for_player(g, g.player_turn, n)}
        untouched == {[ok |-> TRUE, err |-> "", game |-> g, handled |-> FALSE]}
    IN IF g.last_play.t \in {"Draw", "Wild"}
       THEN IF movement.t = "Draw"
            THEN stacked(Card("Draw", c, movement.n + pending_cards))
            ELSE IF movement.t = "Wild"
            THEN stacked(Card("Wild", movement.c, movement.n + pending_cards))
            ELSE IF movement.t = "ActionDraw"
            THEN IF pending_cards > 0 THEN drawn(pending_cards - 1) ELSE untouched
            ELSE drawn(pending_cards)
       ELSE untouched

\* Uno::place_move, uno.rs:323-330.
uno_finish(g, next_turn_scale) ==
    LET g2 == [g EXCEPT !.depth = @ + 1]
    IN IF player_card_count(g2, g2.player_turn) = 0 THEN PlaceOk(g2, "Win")
       ELSE PlaceOk(next_player(g2, next_turn_scale), "Continue")

\* Uno::place_move, uno.rs:313-321.
uno_unhandled_stage(g, movement) ==
    LET next_turn_scale == IF movement.t = "Skip" THEN 2 ELSE 1
        turned == IF movement.t = "Reverse" THEN [g EXCEPT !.reversed = ~@] ELSE g
        drawn == IF movement.t = "ActionDraw"
                 THEN draw_card_for_player(g, g.player_turn, 1)
                 ELSE {StepOk(turned)}
    IN {IF ~d.ok THEN PlaceErr(d.game, d.err)
        ELSE LET u == update_move(d.game, as_card(movement), movement)
             IN IF ~u.ok THEN PlaceErr(u.game, u.err)
                ELSE uno_finish(u.game, next_turn_scale) : d \in drawn}

\* Uno::place_move (uno.rs:272-331): the results the call can have.
uno_place_move(g, movement) ==
    IF ~(movement \in uno_possible_moves(g))
    THEN {PlaceErr(g, "move specified is invalid")}
    ELSE UNION {IF ~a.ok THEN {PlaceErr(a.game, a.err)}
                ELSE IF a.handled THEN {uno_finish(a.game, 1)}
                ELSE uno_unhandled_stage(a.game, movement) :
                    a \in uno_pending_stage(g, movement)}

(***************************************************************************)
(* The Game trait (game.rs:36-48), dispatched on the implementor.          *)
(***************************************************************************)
IS_PERFECT_INFORMATION(g) == g.kind = "grid"

possible_moves(g) ==
    IF g.kind = "grid" THEN ttt_possible_moves(g) ELSE cards_possible_moves(g)

place_move(g, movement) ==
    IF g.kind = "grid" THEN ttt_place_move(g, movement)
    ELSE cards_place_move(g, movement)

score_state(g, state, player) ==
    IF g.kind = "grid" THEN ttt_score_state(g, state, player)
    ELSE cards_score_state(g, state, player)

\* Move::default(): usize::default() = 0 for the grid game, a move no hand
\* holds for the card game (PlayerMove::default(), uno.rs:57-61).
default_move(g) == IF g.kind = "grid" THEN 0 ELSE 255

\* Clone: a grid game is copied as it is (derive(Clone)); a card game re-deals
\* the hidden hands.
cards_clones(g) == {[g EXCEPT !.deal = d] : d \in Deals}

clones(g) == IF g.kind = "grid" THEN {g} ELSE cards_clones(g)

GridGame(b, turn) ==
    [kind |-> "grid", board |-> b, first_player_turn |-> turn,
     game_ended |-> FALSE, deal |-> <<>>, ply |-> 0, last_move |-> 0]

CardsGame(d) ==
    [kind |-> "cards", board |-> <<>>, first_player_turn |-> TRUE,
     game_ended |-> FALSE, deal |-> d, ply |-> 0, last_move |-> 0]

\* Base positions handed to best_move: two boards reached by legal play
\* (X X O / - O X / - - -  with the second player to move, and
\*  X O X / - O - / O X -  with the first player to move) and the card game.
BaseGames ==
    {GridGame(<<1, 1, 2, 0, 2, 1, 0, 0, 0>>, FALSE),
     GridGame(<<1, 2, 1, 0, 2, 0, 2, 1, 0>>, TRUE),
     CardsGame(<<<<1, 3>>, <<2>>>>)}

Players(g) == IF g.kind = "grid" THEN BOOLEAN ELSE {0, 1}

Budgets(g) == IF g.kind = "grid" THEN 0..MaxIter ELSE 0..MaxCardsIter

(***************************************************************************)
(* uct (game.rs:5-11).  The f32 priority is modelled in thousandths:       *)
(* score / visits + sqrt(2) * sqrt(ln(total_visits) / visits) becomes      *)
(* floor(1000 * score / visits) + floor(sqrt(2 * 1000 * 1000 * ln(total) / *)
(* visits)), with ln taken from a table in thousandths.  f32::INFINITY is  *)
(* a value above every finite priority.                                    *)
(***************************************************************************)
Infinity == 1000000000

\* ln(0) = -inf makes the square root NaN; total_cmp orders a NaN outside the
\* infinities.  No node with children has visits = 0 (ParentVisited below).
NaN == Infinity + 1

LnTable == <<0, 693, 1099, 1386, 1609, 1792, 1946, 2079, 2197, 2303, 2398, 2485>>

ln_milli(n) == IF n <= Len(LnTable) THEN LnTable[n] ELSE LnTable[Len(LnTable)]

RECURSIVE isqrt_between(_, _, _)
isqrt_between(x, lo, hi) ==
    IF lo >= hi THEN lo
    ELSE LET mid == (lo + hi + 1) \div 2
         IN IF mid * mid <= x THEN isqrt_between(x, mid, hi)
            ELSE isqrt_between(x, lo, mid - 1)

isqrt(x) == isqrt_between(x, 0, 3000)

\* Variant used to test the properties: no infinite priority for visits = 0.
uct_unvisited_zero(sc, visits, total_visits) ==
    IF visits = 0 THEN 0
    ELSE IF total_visits = 0 THEN NaN
    ELSE (sc * 500) \div visits + isqrt((2 * ln_milli(total_visits) * 1000) \div visits)

uct(sc, visits, total_visits) ==
    IF visits = 0 THEN Infinity
    ELSE IF total_visits = 0 THEN NaN
    ELSE (sc * 500) \div visits + isqrt((2 * ln_milli(total_visits) * 1000) \div visits)

(***************************************************************************)
(* Iterator::max_by as select and best_descendant use it: the index of the *)
(* maximal element, the last one when several are equally maximal.         *)
(***************************************************************************)
\* (max_by_first, the first of the equally maximal ones, is the variant used
\* to test the properties.)
max_by_first(vals) ==
    CHOOSE i \in 1..Len(vals) :
        /\ \A j \in 1..Len(vals) : vals[j] <= vals[i]
        /\ \A j \in 1..(i - 1) : vals[j] < vals[i]

max_by(vals) ==
    CHOOSE i \in 1..Len(vals) :
        /\ \A j \in 1..Len(vals) : vals[j] <= vals[i]
        /\ \A j \in (i + 1)..Len(vals) : vals[j] < vals[i]

(***************************************************************************)
(* MctsTree (game.rs:60-98).                                               *)
(***************************************************************************)
MctsNode(m) == [placement_move |-> m, score |-> 0, visits |-> 0]

tree_new(g) == [nodes |-> <<MctsNode(default_move(g))>>, children |-> <<<<>>>>]

\* (add_child_shared, which also hangs the new node under the root,
\* add_child_front, which puts the new id first in the parent's list, and
\* add_child_unchecked, which does not test the parent index, are the variants
\* used to test the properties.)
add_child_shared(t, node, m) ==
    IF node < Len(t.nodes)
    THEN [nodes |-> Append(t.nodes, MctsNode(m)),
          children |-> Append([i \in 1..Len(t.children) |->
                                  IF i = node + 1 \/ i = 1
                                  THEN Append(t.children[i], Len(t.nodes))
                                  ELSE t.children[i]],
                              <<>>)]
    ELSE t

add_child_front(t, node, m) ==
    IF node < Len(t.nodes)
    THEN [nodes |-> Append(t.nodes, MctsNode(m)),
          children |-> Append([t.children EXCEPT ![node + 1] = <<Len(t.nodes)>> \o @],
                              <<>>)]
    ELSE t

add_child_unchecked(t, node, m) ==
    [nodes |-> Append(t.nodes, MctsNode(m)),
     children |-> Append([i \in 1..Len(t.children) |->
                             IF i = node + 1 THEN Append(t.children[i], Len(t.nodes))
                             ELSE t.children[i]],
                         <<>>)]

\* add_child, the tree it leaves: the new NodeId is the old node count, and a
\* parent that is out of range leaves the tree as it was.
add_child(t, node, m) ==
    IF node < Len(t.nodes)
    THEN [nodes |-> Append(t.nodes, MctsNode(m)),
          children |-> Append([t.children EXCEPT ![node + 1] = Append(@, Len(t.nodes))],
                              <<>>)]
    ELSE t

\* add_child, the Option<NodeId> it returns (game.rs:81-89).
add_child_id(t, node) ==
    IF node < Len(t.nodes) THEN [some |-> TRUE, v |-> Len(t.nodes)]
    ELSE [some |-> FALSE, v |-> 0]

\* (add_children_but_last, which stops one move early, is the variant used to
\* test the properties.)
RECURSIVE add_children_but_last(_, _, _)
add_children_but_last(t, node, ms) ==
    IF Len(ms) <= 1 THEN t
    ELSE add_children_but_last(add_child(t, node, ms[1]), node, Tail(ms))

RECURSIVE add_children(_, _, _)
add_children(t, node, ms) ==
    IF Len(ms) = 0 THEN t
    ELSE add_children(add_child(t, node, ms[1]), node, Tail(ms))

root == 0

(***************************************************************************)
(* Mcts::diff_existing_children (game.rs:134-142): the moves of the        *)
(* existing children that truth contains, in child order; None when there  *)
(* is no such child.                                                       *)
(***************************************************************************)
diff_existing_children(nds, existing, truth) ==
    LET moves == [i \in 1..Len(existing) |-> nds[existing[i] + 1].placement_move]
        InTruth(m) == Contains(truth, m)
        diff == SelectSeq(moves, InTruth)
    IN [some |-> Len(diff) > 0, v |-> diff]

(***************************************************************************)
(* Helpers of the selection loop of Mcts::select (game.rs:163-169): the    *)
(* UCT priority of every child, with the parent's own visit count as       *)
(* total_visits.                                                           *)
(***************************************************************************)
NoPending == [some |-> FALSE, v |-> <<>>]

\* What the properties remember of one pass of the selection loop at a node
\* with children: the node, its child list and the children's nodes as the pass
\* found them, possible_moves() of the clone, and what the pass did.
Scanned(nds, last_id, node_children, truth, descended, chosen) ==
    [node |-> last_id, kids |-> node_children,
     kid_nodes |-> [i \in 1..Len(node_children) |-> nds[node_children[i] + 1]],
     total_visits |-> nds[last_id + 1].visits,
     truth |-> truth, descended |-> descended, chosen |-> chosen]

child_priorities(nds, node_children, total_visits) ==
    [i \in 1..Len(node_children) |->
        uct(nds[node_children[i] + 1].score, nds[node_children[i] + 1].visits,
            total_visits)]

(***************************************************************************)
(* Mcts::backpropagate (game.rs:222-230): walks the traversal from its     *)
(* last entry (k) to the root (1).                                         *)
(***************************************************************************)
RECURSIVE backprop_from(_, _, _, _)
backprop_from(nds, traversal, k, acc) ==
    IF k = 0 THEN nds
    ELSE LET acc2 == acc + score(traversal[k].ms)
             id == traversal[k].id
         IN backprop_from([nds EXCEPT ![id + 1].visits = @ + 1,
                                      ![id + 1].score = @ + acc2],
                          traversal, k - 1, acc2)

\* Variants of backpropagate used to test the properties: one that credits
\* every node with the rollout score alone, one that leaves out the root.
backpropagate_flat(nds, traversal, rollout_score) ==
    [n \in 1..Len(nds) |->
        IF \E k \in 1..Len(traversal) : traversal[k].id + 1 = n
        THEN [nds[n] EXCEPT !.visits = @ + 1, !.score = @ + rollout_score]
        ELSE nds[n]]

RECURSIVE backprop_down_to(_, _, _, _, _)
backprop_down_to(nds, traversal, k, stop, acc) ==
    IF k = stop THEN nds
    ELSE LET acc2 == acc + score(traversal[k].ms)
             id == traversal[k].id
         IN backprop_down_to([nds EXCEPT ![id + 1].visits = @ + 1,
                                         ![id + 1].score = @ + acc2],
                             traversal, k - 1, stop, acc2)

backpropagate_skip_root(nds, traversal, rollout_score) ==
    backprop_down_to(nds, traversal, Len(traversal), 1, rollout_score)

backpropagate(nds, traversal, rollout_score) ==
    backprop_from(nds, traversal, Len(traversal), rollout_score)

(***************************************************************************)
(* Mcts::best_descendant (game.rs:233-240).                                *)
(***************************************************************************)
\* Variants used to test the properties: the root among the candidates, and
\* the average score (in thousandths) as the key.
root_candidates_with_root(chl) == <<root>> \o chl[root + 1]

root_candidates(chl) == chl[root + 1]

descendant_key_average(n) ==
    IF n.visits = 0 THEN NaN ELSE (n.score * 500) \div n.visits

descendant_key(n) == n.visits

best_descendant(nds, chl) ==
    LET cands == root_candidates(chl)
        keys == [i \in 1..Len(cands) |-> descendant_key(nds[cands[i] + 1])]
    IN cands[max_by(keys)]

(***************************************************************************)
(* Result::unwrap on what place_move returned (game.rs:171, 201, 213): an  *)
(* Err panics, and the panic leaves best_move without a return value.      *)
(***************************************************************************)
\* Variant used to test the properties: the error is dropped and the engine
\* carries on with the game as the failed call left it.
unwrap_ignores_err(r) == FALSE

unwrap_panics(r) == ~r.ok

(***************************************************************************)
(* Mcts::select, game.rs:186-199: the nodes among which the expansion step *)
(* chooses, t being the tree after the add_child calls and node_count the  *)
(* number of nodes before them: the ids that add_child returned for the    *)
(* pending moves, or every child of the selected node.                     *)
(***************************************************************************)
\* Variant used to test the properties: every child of the selected node,
\* with a pending move diff too.
expansion_candidates_all(t, node_count, selected_node, pending) ==
    t.children[selected_node + 1]

expansion_candidates(t, node_count, selected_node, pending) ==
    IF pending.some
    THEN [i \in 1..(Len(t.nodes) - node_count) |-> node_count + i - 1]
    ELSE t.children[selected_node + 1]

(***************************************************************************)
(* best_move, game.rs:252-256: a rollout follows the selection unless the  *)
(* last step of the traversal was Terminal.                                *)
(***************************************************************************)
\* Variant used to test the properties: a rollout follows every selection.
needs_rollout_always(last_score) == TRUE

needs_rollout(last_score) == ~is_terminal(last_score)

(***************************************************************************)
(* State after Mcts::new(player_id) (game.rs:130-132, 73-78), at the entry *)
(* of best_move(base_game, iterations).                                    *)
(***************************************************************************)
NoResult == [kind |-> "none", node |-> 0, move |-> 0, at |-> ""]

Panicked(where) == [kind |-> "panic", node |-> 0, move |-> 0, at |-> where]

Init ==
    /\ base_game \in BaseGames
    /\ player_id \in Players(base_game)
    /\ iterations \in Budgets(base_game)
    /\ nodes = tree_new(base_game).nodes
    /\ children = tree_new(base_game).children
    /\ iter = 0
    /\ pc = "loop"
    /\ game = base_game
    /\ selected = <<>>
    /\ pending_move_diff = NoPending
    /\ acc_score = 0
    /\ result = NoResult
    /\ scan = <<>>
    /\ place_log = <<>>
    /\ prev_nodes = nodes
    /\ calls = 1
    /\ terminated = FALSE

(***************************************************************************)
(* best_move, game.rs:243-247, and the first lines of select (145-146):    *)
(* one more pass of the for loop begins with a clone of the base position, *)
(* a traversal that holds the root, and no pending move diff.              *)
(***************************************************************************)
Clone ==
    /\ pc = "loop"
    /\ iter < iterations
    /\ game' \in clones(base_game)
    /\ pc' = "select"
    /\ selected' = <<[id |-> root, ms |-> MoveScoreNone]>>
    /\ pending_move_diff' = NoPending
    /\ acc_score' = 0
    /\ scan' = <<>>
    /\ place_log' = <<>>
    /\ UNCHANGED <<nodes, children, base_game, player_id, iterations, iter,
                   result, prev_nodes>>
    /\ UNCHANGED <<calls, terminated>>

(***************************************************************************)
(* Mcts::select, one pass of the selection loop (game.rs:147-175).  The    *)
(* pass reads the tree and changes only the cloned game; the loop is left  *)
(* at a node without children, at a node where diff_existing_children      *)
(* returned Some, or by the panic of place_move(..).unwrap().              *)
(***************************************************************************)
SelectStep ==
    /\ pc = "select"
    /\ LET last_id == Last(selected).id
           node_children == children[last_id + 1]
           truth == possible_moves(game)
           d == diff_existing_children(nodes, node_children, truth)
           total_visits == nodes[last_id + 1].visits
           selected_node == max_by(child_priorities(nodes, node_children, total_visits))
           placement_move == nodes[node_children[selected_node] + 1].placement_move
           r == place_move(game, placement_move)
       IN IF Len(node_children) = 0
          THEN /\ pc' = "expand"
               /\ UNCHANGED <<game, selected, pending_move_diff, result, scan,
                              place_log>>
          ELSE IF ~IS_PERFECT_INFORMATION(game) /\ d.some
          THEN /\ pc' = "expand"
               /\ pending_move_diff' = d
               /\ scan' = Append(scan, Scanned(nodes, last_id, node_children, truth,
                                                FALSE, 0))
               /\ UNCHANGED <<game, selected, result, place_log>>
          ELSE /\ scan' = Append(scan, Scanned(nodes, last_id, node_children, truth,
                                                TRUE, node_children[selected_node]))
               /\ place_log' = Append(place_log,
                                      [phase |-> "selection", move |-> placement_move,
                                       legal |-> Contains(truth, placement_move),
                                       ok |-> r.ok, state |-> r.state])
               /\ IF unwrap_panics(r)
                  THEN /\ pc' = "panic"
                       /\ result' = Panicked("select")
                       /\ UNCHANGED <<game, selected, pending_move_diff>>
                  ELSE /\ pc' = "select"
                       /\ game' = r.game
                       /\ selected' = Append(selected,
                                             [id |-> node_children[selected_node],
                                              ms |-> score_state(r.game, r.state,
                                                                 player_id)])
                       /\ UNCHANGED <<pending_move_diff, result>>
    /\ UNCHANGED <<nodes, children, base_game, player_id, iterations, iter,
                   acc_score, prev_nodes>>
    /\ UNCHANGED <<calls, terminated>>

(***************************************************************************)
(* Mcts::select, the expansion step (game.rs:178-205), and the test of     *)
(* best_move (game.rs:249-256) that decides whether a rollout follows.  An *)
(* unwrap of an Err or of a None ends best_move in a panic.                *)
(***************************************************************************)
Expand ==
    /\ pc = "expand"
    /\ LET selected_node == Last(selected).id
           last_score == Last(selected).ms
           new_moves == IF pending_move_diff.some THEN pending_move_diff.v
                        ELSE possible_moves(game)
           t2 == add_children([nodes |-> nodes, children |-> children],
                              selected_node, new_moves)
           candidates == expansion_candidates(t2, Len(nodes), selected_node,
                                              pending_move_diff)
       IN IF is_terminal(last_score)
          THEN /\ pc' = IF needs_rollout(last_score) THEN "rollout" ELSE "backprop"
               /\ UNCHANGED <<nodes, children, game, selected, result, place_log>>
          ELSE IF Len(candidates) = 0
          THEN /\ pc' = "panic"
               /\ result' = Panicked("select")
               /\ UNCHANGED <<nodes, children, game, selected, place_log>>
          ELSE \E i \in 1..Len(candidates) :
                 LET next_selection == candidates[i]
                     m == t2.nodes[next_selection + 1].placement_move
                     r == place_move(game, m)
                     ms == score_state(r.game, r.state, player_id)
                 IN /\ nodes' = t2.nodes
                    /\ children' = t2.children
                    /\ place_log' = Append(place_log,
                                           [phase |-> "expansion", move |-> m,
                                            legal |-> Contains(possible_moves(game), m),
                                            ok |-> r.ok, state |-> r.state])
                    /\ IF unwrap_panics(r)
                       THEN /\ pc' = "panic"
                            /\ result' = Panicked("select")
                            /\ UNCHANGED <<game, selected>>
                       ELSE /\ selected' = Append(selected,
                                                  [id |-> next_selection, ms |-> ms])
                            /\ game' = r.game
                            /\ pc' = IF needs_rollout(ms) THEN "rollout" ELSE "backprop"
                            /\ UNCHANGED result
    /\ UNCHANGED <<base_game, player_id, iterations, iter, pending_move_diff,
                   acc_score, scan, prev_nodes>>
    /\ UNCHANGED <<calls, terminated>>

(***************************************************************************)
(* Mcts::rollout (game.rs:209-220), one pass of its loop.                  *)
(***************************************************************************)
RolloutStep ==
    /\ pc = "rollout"
    /\ LET moves == possible_moves(game)
       IN IF Len(moves) = 0
          THEN /\ pc' = "panic"
               /\ result' = Panicked("rollout")
               /\ UNCHANGED <<game, acc_score, place_log>>
          ELSE \E i \in 1..Len(moves) :
                 LET random_move == moves[i]
                     r == place_move(game, random_move)
                     ms == score_state(r.game, r.state, player_id)
                 IN /\ place_log' = Append(place_log,
                                           [phase |-> "rollout", move |-> random_move,
                                            legal |-> Contains(moves, random_move),
                                            ok |-> r.ok, state |-> r.state])
                    /\ IF unwrap_panics(r)
                       THEN /\ pc' = "panic"
                            /\ result' = Panicked("rollout")
                            /\ UNCHANGED <<game, acc_score>>
                       ELSE /\ game' = r.game
                            /\ acc_score' = acc_score + score(ms)
                            /\ pc' = IF is_terminal(ms) THEN "backprop" ELSE "rollout"
                            /\ UNCHANGED result
    /\ UNCHANGED <<nodes, children, base_game, player_id, iterations, iter,
                   selected, pending_move_diff, scan, prev_nodes>>
    /\ UNCHANGED <<calls, terminated>>

(***************************************************************************)
(* best_move, game.rs:258: backpropagate(&selected, rollout_score) ends    *)
(* the pass.                                                               *)
(***************************************************************************)
Backpropagate ==
    /\ pc = "backprop"
    /\ prev_nodes' = nodes
    /\ nodes' = backpropagate(nodes, selected, acc_score)
    /\ iter' = iter + 1
    /\ pc' = "loop"
    /\ UNCHANGED <<children, base_game, player_id, iterations, game, selected,
                   pending_move_diff, acc_score, result, scan, place_log>>
    /\ UNCHANGED <<calls, terminated>>

(***************************************************************************)
(* best_move, game.rs:264-266: the budget is used up, the move of the best *)
(* descendant is returned; max_by over no child is None and unwrap panics. *)
(***************************************************************************)
BestMove ==
    /\ pc = "loop"
    /\ iter = iterations
    /\ IF Len(root_candidates(children)) = 0
       THEN /\ pc' = "panic"
            /\ result' = Panicked("best_descendant")
       ELSE LET best == best_descendant(nodes, children)
            IN /\ pc' = "done"
               /\ result' = [kind |-> "move", node |-> best,
                             move |-> nodes[best + 1].placement_move, at |-> ""]
    /\ UNCHANGED <<nodes, children, base_game, player_id, iterations, iter, game,
                   selected, pending_move_diff, acc_score, scan, place_log,
                   prev_nodes>>
    /\ UNCHANGED <<calls, terminated>>

Next == Clone \/ SelectStep \/ Expand \/ RolloutStep \/ Backpropagate \/ BestMove

Spec == Init /\ [][Next]_vars

(***************************************************************************)
(* An engine that is asked for more than one decision.  best_move is a pub *)
(* fn on &mut self (game.rs:242): after it has returned, the owner of the  *)
(* engine may call it again, with any base position of the same game type  *)
(* and any budget.  The call starts its for loop at 0 and works on         *)
(* self.tree as the earlier call left it: neither best_move nor select     *)
(* assigns self.tree; MctsTree::new is called by Mcts::new alone.          *)
(***************************************************************************)
BestMoveAgain ==
    /\ pc = "done"
    /\ calls < MaxCalls
    /\ base_game' \in {g \in BaseGames : g.kind = base_game.kind}
    /\ iterations' \in 0..(MaxReuseIter - nodes[root + 1].visits)
    /\ iter' = 0
    /\ pc' = "loop"
    /\ result' = NoResult
    /\ calls' = calls + 1
    /\ UNCHANGED <<nodes, children, player_id, game, selected, pending_move_diff,
                   acc_score, scan, place_log, prev_nodes, terminated>>

InitEngine == Init /\ iterations <= MaxReuseIter

NextEngine == Next \/ BestMoveAgain

SpecEngine == InitEngine /\ [][NextEngine]_vars

(***************************************************************************)
(* A game driven by its caller, without an engine: the caller constructs   *)
(* the game (TicTacToe::new, tictactoe.rs:21-27; Uno::new, uno.rs:77-98)   *)
(* and calls place_move with any move, legal or not, any number of times,  *)
(* also after an error and after the end of the game.  place_log holds     *)
(* the last call: its argument, what it returned and the game before it.   *)
(***************************************************************************)
ttt_new == GridGame(<<0, 0, 0, 0, 0, 0, 0, 0, 0>>, TRUE)

\* Decks handed to Uno::new, as functions from card to count.
UnoDeckA ==
    (Card("Number", "Red", 1) :> 2) @@ (Card("Number", "Blue", 1) :> 1) @@
    (Card("Number", "Blue", 2) :> 1) @@ (Card("Draw", "Red", 2) :> 1) @@
    (Card("Skip", "Red", 0) :> 1)

UnoDeckB ==
    (Card("Number", "Red", 1) :> 1) @@ (Card("Number", "Blue", 1) :> 1) @@
    (Card("Number", "Red", 2) :> 1) @@ (Card("Wild", "-", 4) :> 1) @@
    (Card("Reverse", "Red", 0) :> 1)

StartGames ==
    {ttt_new} \cup uno_new(UnoDeckA, 2, 2) \cup uno_new(UnoDeckB, 2, 1)

\* The arguments the caller passes: every cell and an index off the board;
\* every move a card of the deck can make, ActionDraw and a move that names
\* no card of the deck.
GridMoves == 0..9

UnoMoves(g) ==
    UNION {IF c.t = "Wild" THEN {Card("Wild", col, c.n) : col \in Colours} ELSE {c} :
               c \in DOMAIN g.deck}
        \cup {ActionDraw, uno_default_move}

Ended(state) == state \in {"Win", "Draw"}

\* after_end: a call before this one had returned a terminal outcome.
Called(g, movement, legal, r) ==
    [phase |-> "caller", move |-> movement, legal |-> legal, ok |-> r.ok,
     err |-> r.err, state |-> r.state, before |-> g, after_end |-> terminated]

InitGame ==
    /\ game \in StartGames
    /\ base_game = game
    /\ pc = "caller"
    /\ place_log = <<>>
    /\ terminated = FALSE
    /\ player_id = 0
    /\ iterations = 0
    /\ nodes = <<>>
    /\ children = <<>>
    /\ iter = 0
    /\ selected = <<>>
    /\ pending_move_diff = NoPending
    /\ acc_score = 0
    /\ result = NoResult
    /\ scan = <<>>
    /\ prev_nodes = <<>>
    /\ calls = 0

GridPlaceMove ==
    /\ pc = "caller"
    /\ game.kind = "grid"
    /\ \E movement \in GridMoves :
         LET r == ttt_place_move(game, movement)
         IN /\ game' = r.game
            /\ place_log' = <<Called(game, movement,
                                     Contains(ttt_possible_moves(game), movement), r)>>
            /\ terminated' = (terminated \/ (r.ok /\ Ended(r.state)))
    /\ UNCHANGED <<nodes, children, base_game, player_id, iterations, iter, pc,
                   selected, pending_move_diff, acc_score, result, scan,
                   prev_nodes, calls>>

UnoPlaceMove ==
    /\ pc = "caller"
    /\ game.kind = "uno"
    /\ \E movement \in UnoMoves(game) :
         \E r \in uno_place_move(game, movement) :
            /\ r.game.depth <= MaxUnoDepth
            /\ game' = r.game
            /\ place_log' = <<Called(game, movement,
                                     movement \in uno_possible_moves(game), r)>>
            /\ terminated' = (terminated \/ (r.ok /\ Ended(r.state)))
    /\ UNCHANGED <<nodes, children, base_game, player_id, iterations, iter, pc,
                   selected, pending_move_diff, acc_score, result, scan,
                   prev_nodes, calls>>

NextGame == GridPlaceMove \/ UnoPlaceMove

SpecGame == InitGame /\ [][NextGame]_vars

(***************************************************************************)
(* Vocabulary of the properties.                                           *)
(***************************************************************************)
SeqToSet(q) == {q[i] : i \in 1..Len(q)}

Imperfect == ~IS_PERFECT_INFORMATION(base_game)

\* The selection and expansion of the current iteration are over.
Expanded == pc \in {"rollout", "backprop"}

\* ... or select ended in a panic.
SelectOver == Expanded \/ (pc = "panic" /\ result.at = "select")

HeldMoves(e) == {e.kid_nodes[i].placement_move : i \in 1..Len(e.kid_nodes)}

MissingMoves(e) == SeqToSet(e.truth) \ HeldMoves(e)

\* The children a scanned node has gained since the scan.
AddedChildren(e) ==
    SubSeq(children[e.node + 1], Len(e.kids) + 1, Len(children[e.node + 1]))

KidsKept(e) ==
    /\ Len(children[e.node + 1]) >= Len(e.kids)
    /\ SubSeq(children[e.node + 1], 1, Len(e.kids)) = e.kids
    /\ \A i \in 1..Len(e.kids) : nodes[e.kids[i] + 1] = e.kid_nodes[i]

Priority(e, i) == uct(e.kid_nodes[i].score, e.kid_nodes[i].visits, e.total_visits)

MaxPriority(e, i) == \A j \in 1..Len(e.kids) : Priority(e, j) <= Priority(e, i)

ChosenIndex(e) == CHOOSE i \in 1..Len(e.kids) : e.kids[i] = e.chosen

RootKids == children[root + 1]

Visits(n) == nodes[n + 1].visits

KidVisits(n) == SumSeq([i \in 1..Len(children[n + 1]) |-> Visits(children[n + 1][i])])

NodeIds == 0..(Len(nodes) - 1)

(***************************************************************************)
(* C1.  Imperfect-information game: when selection reaches a node with     *)
(* children and possible_moves() of the clone holds moves that no child of *)
(* the node holds, the engine adds exactly the missing moves as new        *)
(* children (one child per missing move, none for a move that has a        *)
(* child), and the children that existed keep their place, visits and      *)
(* score.                                                                  *)
(***************************************************************************)
C1_AddsExactlyMissingMoves ==
    \A k \in 1..Len(scan) :
        (Imperfect /\ Expanded /\ MissingMoves(scan[k]) # {}) =>
            /\ KidsKept(scan[k])
            /\ Len(AddedChildren(scan[k])) = Cardinality(MissingMoves(scan[k]))
            /\ {nodes[c + 1].placement_move : c \in SeqToSet(AddedChildren(scan[k]))}
                   = MissingMoves(scan[k])

(***************************************************************************)
(* C2.  Imperfect-information game: when selection reaches a node with     *)
(* children and every move of possible_moves() of the clone is held by a   *)
(* child of the node, no child is added to the node in this iteration and  *)
(* the engine descends into a child of maximal UCT priority.               *)
(***************************************************************************)
C2_NoMismatchDescends ==
    \A k \in 1..Len(scan) :
        (Imperfect /\ SelectOver /\ MissingMoves(scan[k]) = {}) =>
            /\ children[scan[k].node + 1] = scan[k].kids
            /\ scan[k].descended
            /\ MaxPriority(scan[k], ChosenIndex(scan[k]))

(***************************************************************************)
(* C3.  Every move passed to place_move during selection, expansion and    *)
(* rollout is a member of possible_moves() of the clone at that moment.    *)
(***************************************************************************)
C3_OnlyLegalMovesPlaced ==
    \A i \in 1..Len(place_log) : place_log[i].legal

MostVisited(i) == \A j \in 1..Len(RootKids) : Visits(RootKids[j]) <= Visits(RootKids[i])

C5_TieGoesToFirstChild ==
    pc = "done" =>
        \E i \in 1..Len(RootKids) :
            /\ result.node = RootKids[i]
            /\ MostVisited(i)
            /\ \A j \in 1..(i - 1) : ~MostVisited(j)

(***************************************************************************)
(* C5, as the code has it: when several direct children of the root share  *)
(* the maximal visit count, best_move returns the move of the one that     *)
(* comes last in the root's child list.                                    *)
(***************************************************************************)
C5_TieGoesToLastChild ==
    pc = "done" =>
        \E i \in 1..Len(RootKids) :
            /\ result.node = RootKids[i]
            /\ MostVisited(i)
            /\ \A j \in (i + 1)..Len(RootKids) : ~MostVisited(j)

\* best_move has returned while two or more children are the most visited.
C5_Witness ==
    /\ pc = "done"
    /\ \E i, j \in 1..Len(RootKids) :
          i < j /\ MostVisited(i) /\ MostVisited(j) /\ result.node = RootKids[j]

(***************************************************************************)
(* C6.  For every base position and every budget N >= 0, decision          *)
(* extraction returns the move of one of the root's direct children and    *)
(* never the root's own placeholder move.                                  *)
(***************************************************************************)
ExtractionOver == pc = "done" \/ (pc = "panic" /\ result.at = "best_descendant")

ReturnsChildOfRoot ==
    /\ result.kind = "move"
    /\ result.node # root
    /\ result.node \in SeqToSet(RootKids)
    /\ result.move = nodes[result.node + 1].placement_move

C6_ExtractionReturnsChildForEveryBudget ==
    ExtractionOver => ReturnsChildOfRoot

(***************************************************************************)
(* C6, as the code has it: for every base position and every budget        *)
(* N >= 1, decision extraction returns the move of one of the root's       *)
(* direct children and never the root's own placeholder move; with N = 0   *)
(* the root has no child and best_move panics without returning a move.    *)
(***************************************************************************)
C6_ExtractionReturnsChildForPositiveBudget ==
    /\ (ExtractionOver /\ iterations >= 1) => ReturnsChildOfRoot
    /\ (ExtractionOver /\ iterations = 0) => (pc = "panic" /\ RootKids = <<>>)

\* best_move has returned after a budget of two or more iterations.
C6_Witness ==
    pc = "done" /\ iterations >= 2 /\ ReturnsChildOfRoot

(***************************************************************************)
(* C7.  During selection, when several children of the current node share  *)
(* the maximal UCT priority (several unvisited children, all of priority   *)
(* +infinity, in particular), the engine descends into the one that comes  *)
(* first in the node's child list.                                         *)
(***************************************************************************)
C7_PriorityTieGoesToFirstChild ==
    \A k \in 1..Len(scan) :
        scan[k].descended =>
            /\ MaxPriority(scan[k], ChosenIndex(scan[k]))
            /\ \A j \in 1..(ChosenIndex(scan[k]) - 1) : ~MaxPriority(scan[k], j)

(***************************************************************************)
(* C7, as the code has it: during selection, when several children of the  *)
(* current node share the maximal UCT priority, the engine descends into   *)
(* the one that comes last in the node's child list.                       *)
(***************************************************************************)
C7_PriorityTieGoesToLastChild ==
    \A k \in 1..Len(scan) :
        scan[k].descended =>
            /\ MaxPriority(scan[k], ChosenIndex(scan[k]))
            /\ \A j \in (ChosenIndex(scan[k]) + 1)..Len(scan[k].kids) :
                   ~MaxPriority(scan[k], j)

\* Selection has descended at a node where two or more unvisited children
\* shared the priority +infinity, and the descent succeeded.
C7_Witness ==
    /\ pc \in {"select", "expand", "rollout", "backprop"}
    /\ \E k \in 1..Len(scan) :
          /\ scan[k].descended
          /\ \E i, j \in 1..Len(scan[k].kids) :
                /\ i < j
                /\ scan[k].kid_nodes[i].visits = 0
                /\ scan[k].kid_nodes[j].visits = 0
                /\ scan[k].chosen = scan[k].kids[j]

(***************************************************************************)
(* C8.  Perfect-information game, in every state between iterations: no    *)
(* node has a child with visits >= 2 while another child of the same node  *)
(* has visits 0; and once the number of completed iterations is at least   *)
(* the number of root children, every root child has visits >= 1.          *)
(***************************************************************************)
C8_UnvisitedChildrenFirst ==
    (~Imperfect /\ pc = "loop") =>
        /\ \A n \in NodeIds : \A c, d \in SeqToSet(children[n + 1]) :
               ~(Visits(c) >= 2 /\ Visits(d) = 0)
        /\ iter >= Len(RootKids) => \A c \in SeqToSet(RootKids) : Visits(c) >= 1

\* Between two iterations of a perfect-information decision, the iterations
\* done cover the root's children and a child of the root was visited again.
C8_Witness ==
    /\ ~Imperfect
    /\ pc = "loop"
    /\ Len(RootKids) >= 2
    /\ iter >= Len(RootKids)
    /\ \E c \in SeqToSet(RootKids) : Visits(c) >= 2

(***************************************************************************)
(* C9.  For an iteration with the traversal root = n_0, n_1, ..., n_k, the *)
(* step scores s_1..s_k (the root's placeholder scoring 0) and the rollout *)
(* contribution R (0 without a rollout), backpropagation increases the     *)
(* score of n_j by R + s_k + ... + s_j for every j in 1..k and the score   *)
(* of the root by R + s_1 + ... + s_k; the leaf's increment is R + s_k and *)
(* the root's is at least the leaf's when no step score is negative.       *)
(* (selected[j + 1] is the entry of n_j.)                                  *)
(***************************************************************************)
StepScores(from) ==
    SumSeq([i \in 1..(Len(selected) - from + 1) |-> score(selected[from + i - 1].ms)])

ScoreIncrement(n) == nodes[n + 1].score - prev_nodes[n + 1].score

Backpropagated == pc = "loop" /\ iter >= 1

C9_PathCredit ==
    Backpropagated =>
        /\ selected[1].id = root
        /\ score(selected[1].ms) = 0
        /\ \A j \in 1..Len(selected) :
               ScoreIncrement(selected[j].id) = acc_score + StepScores(j)
        /\ ScoreIncrement(Last(selected).id) = acc_score + score(Last(selected).ms)
        /\ ScoreIncrement(root) = acc_score + StepScores(2)
        /\ (\A j \in 1..Len(selected) : score(selected[j].ms) >= 0) =>
               ScoreIncrement(root) >= ScoreIncrement(Last(selected).id)

\* An iteration with a path of two steps or more whose last step scored has
\* been backpropagated.
C9_Witness ==
    /\ Backpropagated
    /\ Len(selected) >= 3
    /\ score(Last(selected).ms) # 0

(***************************************************************************)
(* C10.  In every state between iterations, every node that has a child    *)
(* has a visit count equal to the sum of its children's visit counts, the  *)
(* root and every inner node alike.                                        *)
(***************************************************************************)
C10_VisitsEqualChildVisits ==
    pc = "loop" =>
        \A n \in NodeIds : Len(children[n + 1]) > 0 => Visits(n) = KidVisits(n)

(***************************************************************************)
(* C10, as the code has it: in every state between iterations the root's   *)
(* visit count equals the sum of its children's visit counts once it has   *)
(* children; the visit count of an inner node that has children is that    *)
(* sum or that sum plus one (the visit the node received in the iteration  *)
(* that created it, when the expansion picked it).                         *)
(***************************************************************************)
C10_VisitsWithinOneOfChildVisits ==
    pc = "loop" =>
        /\ Len(RootKids) > 0 => Visits(root) = KidVisits(root)
        /\ \A n \in NodeIds :
               (n # root /\ Len(children[n + 1]) > 0) =>
                   Visits(n) \in {KidVisits(n), KidVisits(n) + 1}

\* Between two iterations an inner node has one visit more than its children
\* together.
C10_Witness ==
    /\ pc = "loop"
    /\ Visits(root) = KidVisits(root)
    /\ \E n \in NodeIds :
          n # root /\ Len(children[n + 1]) > 0 /\ Visits(n) = KidVisits(n) + 1

(***************************************************************************)
(* C11.  Every call of best_move starts from a tree that holds the root    *)
(* alone, with visits 0, score 0 and no children: nothing that an earlier  *)
(* decision built is present when a later decision begins, on the same     *)
(* engine and from a different base position too.                          *)
(***************************************************************************)
DecisionBegins == pc = "loop" /\ iter = 0

C11_DecisionStartsFromRootOnlyTree ==
    DecisionBegins =>
        /\ Len(nodes) = 1
        /\ nodes[root + 1].visits = 0
        /\ nodes[root + 1].score = 0
        /\ children = <<<<>>>>

(***************************************************************************)
(* C12.  If place_move returns an error during the selection, expansion or *)
(* rollout of an iteration, the decision fails as a whole: the failed call *)
(* is the last call made on the game (no retry, the error is not           *)
(* swallowed), best_move returns no move, the iteration is not completed,  *)
(* and nothing runs afterwards (no later iteration, no extraction).        *)
(***************************************************************************)
PlaceMoveFailed == \E i \in 1..Len(place_log) : ~place_log[i].ok

DecisionFailed == pc = "panic" /\ result.kind = "panic"

C12_PlaceMoveErrorFailsDecision ==
    /\ [](PlaceMoveFailed =>
             /\ ~Last(place_log).ok
             /\ \A i \in 1..(Len(place_log) - 1) : place_log[i].ok
             /\ DecisionFailed
             /\ iter < iterations)
    /\ [][DecisionFailed => UNCHANGED vars]_vars

\* The second iteration of a decision with a budget of three has failed on a
\* place_move error.
C12_Witness ==
    /\ PlaceMoveFailed
    /\ DecisionFailed
    /\ iter >= 1
    /\ iter + 1 < iterations

(***************************************************************************)
(* C14.  In each game (grid game and card game), once place_move has       *)
(* returned a terminal outcome, every later place_move call on that game   *)
(* fails with the game-already-ended error, whatever move is passed.       *)
(***************************************************************************)
LastCall == place_log[1]

CallMade == pc = "caller" /\ Len(place_log) = 1

InvalidMoveErrors ==
    {"move already exists at position", "invalid position provided",
     "move specified is invalid"}

C15_InvalidMoveFailsAndChangesNothing ==
    (CallMade /\ ~LastCall.after_end /\ ~LastCall.legal) =>
        /\ ~LastCall.ok
        /\ LastCall.err \in InvalidMoveErrors
        /\ game = LastCall.before

\* A cell that was taken was passed to a grid game that is going on.
C15_Witness ==
    /\ CallMade
    /\ ~LastCall.after_end
    /\ game.kind = "grid"
    /\ LastCall.move \in 0..8
    /\ LastCall.before.board[LastCall.move + 1] # 0
    /\ LastCall.err = "move already exists at position"

(***************************************************************************)
(* C16.  Grid game, from the empty board: place_move at 4, 0, 8, 2, 6 in   *)
(* that order (A:4, B:0, A:8, B:2, A:6); the first four calls return       *)
(* Continue, the fifth call (A's third move) returns a win for A, exactly  *)
(* one terminal outcome is reported and the game is marked ended.          *)
(* (A is the first player, mark 1; ScenarioBoard(k) is the board after the *)
(* first k moves.)                                                         *)
(***************************************************************************)
ScenarioMoves == <<4, 0, 8, 2, 6>>

ScenarioBoard(k) ==
    [c \in 1..9 |->
        IF \E i \in 1..k : ScenarioMoves[i] + 1 = c
        THEN IF (CHOOSE i \in 1..k : ScenarioMoves[i] + 1 = c) % 2 = 1 THEN 1 ELSE 2
        ELSE 0]

\* The k-th call of the scenario has been made, the calls before it having
\* gone as the scenario says.
ScenarioCall(k) ==
    /\ CallMade
    /\ LastCall.before = GridGame(ScenarioBoard(k - 1), k % 2 = 1)
    /\ LastCall.move = ScenarioMoves[k]

ScenarioGoesOn(k) ==
    ScenarioCall(k) =>
        /\ LastCall.ok
        /\ LastCall.state = "Continue"
        /\ game = GridGame(ScenarioBoard(k), k % 2 = 0)
        /\ ~terminated

C16_FifthMoveWinsForA ==
    /\ \A k \in 1..4 : ScenarioGoesOn(k)
    /\ ScenarioCall(5) =>
           /\ LastCall.ok
           /\ LastCall.state = "Win"
           /\ game.board = ScenarioBoard(5)
           /\ game.first_player_turn
           /\ game.game_ended
           /\ terminated

(***************************************************************************)
(* C16, as the code has it: grid game, from the empty board, place_move at *)
(* 4, 0, 8, 2, 6 in that order; all five calls return Continue: after the  *)
(* fifth call A holds 4, 6 and 8 and B holds 0 and 2, which completes no   *)
(* line (0-4-8 and 2-4-6 each hold a mark of B), so no terminal outcome is *)
(* reported, the game is not marked ended and B is to move.                *)
(***************************************************************************)
C16_FifthMoveGoesOn ==
    \A k \in 1..5 : ScenarioGoesOn(k)

\* The fifth call of the scenario has been made.
C16_Witness ==
    ScenarioCall(5) /\ LastCall.ok /\ game.board = ScenarioBoard(5)

(***************************************************************************)
(* C17.  Grid game, in every reachable state: possible_moves() returns     *)
(* exactly the indices of the empty cells, in increasing order; the cell   *)
(* of a move that was placed holds the mark of the player who placed it    *)
(* and is not among possible_moves(); and a cell once marked is never      *)
(* changed or cleared by a later place_move.                               *)
(***************************************************************************)
GridCaller == pc = "caller" /\ game.kind = "grid"

EmptyCells(g) == {i \in 0..8 : g.board[i + 1] = 0}

Increasing(q) == \A i, j \in 1..Len(q) : i < j => q[i] < q[j]

C17_PossibleMovesAreEmptyCells ==
    /\ [](GridCaller =>
             /\ SeqToSet(ttt_possible_moves(game)) = EmptyCells(game)
             /\ Len(ttt_possible_moves(game)) = Cardinality(EmptyCells(game))
             /\ Increasing(ttt_possible_moves(game))
             /\ (Len(place_log) = 1 /\ LastCall.ok) =>
                    /\ ~Contains(ttt_possible_moves(game), LastCall.move)
                    /\ game.board[LastCall.move + 1] =
                           IF LastCall.before.first_player_turn THEN 1 ELSE 2)
    /\ [][GridCaller =>
             \A i \in 1..9 : game.board[i] # 0 => game'.board[i] = game.board[i]]_vars

\* A fourth mark has been placed on the grid.
C17_Witness ==
    /\ GridCaller
    /\ Len(place_log) = 1
    /\ LastCall.ok
    /\ Cardinality(EmptyCells(game)) = 5
    /\ Cardinality(EmptyCells(LastCall.before)) = 6

(***************************************************************************)
(* C18.  A node reached by a move whose outcome tag is Terminal ends the   *)
(* descent of that iteration: it is the last entry of the traversal,       *)
(* selection does not descend below it (no further place_move call, the    *)
(* game is left as it is), expansion is skipped (the tree is left as it    *)
(* is), and the node has received no children.                             *)
(***************************************************************************)
InDecision == pc \in {"loop", "select", "expand", "rollout", "backprop", "panic", "done"}

TerminalTag(ms) == ms.tag = "Terminal"

EndsTerminal == InDecision /\ Len(selected) >= 1 /\ TerminalTag(Last(selected).ms)

C18_TerminalStepEndsDescent ==
    /\ [](InDecision =>
             \A j \in 1..Len(selected) :
                 TerminalTag(selected[j].ms) =>
                     /\ j = Len(selected)
                     /\ children[selected[j].id + 1] = <<>>
                     /\ Ended(Last(place_log).state)
                     /\ pc \in {"select", "expand", "backprop", "loop", "done"})
    /\ [][(EndsTerminal /\ pc \in {"select", "expand"}) =>
             /\ pc' \in {"expand", "backprop"}
             /\ UNCHANGED <<nodes, children, selected, game, place_log>>]_vars

\* The selection loop has descended, by UCT, into a child whose move ended
\* the game, and the iteration has gone on to backpropagation.
C18_Witness ==
    /\ pc = "backprop"
    /\ EndsTerminal
    /\ Len(scan) >= 1
    /\ Last(scan).descended
    /\ Last(scan).chosen = Last(selected).id

(***************************************************************************)
(* C19.  When the traversal of an iteration ends in a Terminal outcome, no *)
(* rollout is run: the cloned game receives no place_move call after the   *)
(* terminal step, the rollout contribution is 0, and backpropagation       *)
(* increases the last node's score by exactly the terminal score of its    *)
(* step.                                                                   *)
(***************************************************************************)
C19_NoRolloutAfterTerminal ==
    /\ EndsTerminal =>
           /\ pc # "rollout"
           /\ acc_score = 0
           /\ \A i \in 1..Len(place_log) : place_log[i].phase # "rollout"
           /\ Len(place_log) = Len(selected) - 1
           /\ Ended(Last(place_log).state)
    /\ (EndsTerminal /\ Backpropagated) =>
           ScoreIncrement(Last(selected).id) = score(Last(selected).ms)

\* An iteration whose second step ended the game with a score other than 0
\* has been backpropagated.
C19_Witness ==
    /\ EndsTerminal
    /\ Backpropagated
    /\ Len(selected) >= 3
    /\ score(Last(selected).ms) # 0

(***************************************************************************)
(* C20.  Perfect-information game, one decision on a fresh engine: every   *)
(* node that has children has exactly one child per move of                *)
(* possible_moves() of the position obtained by replaying, on the base     *)
(* position, the moves on the path from the root to the node, in the order *)
(* of possible_moves(); and a node that has children never gains one.      *)
(***************************************************************************)
Parent(n) == CHOOSE m \in NodeIds : Contains(children[m + 1], n)

RECURSIVE PathMoves(_)
PathMoves(n) ==
    IF n = root THEN <<>>
    ELSE Append(PathMoves(Parent(n)), nodes[n + 1].placement_move)

RECURSIVE Replay(_, _)
Replay(g, ms) ==
    IF Len(ms) = 0 THEN g ELSE Replay(place_move(g, ms[1]).game, Tail(ms))

ChildMoves(n) ==
    [i \in 1..Len(children[n + 1]) |-> nodes[children[n + 1][i] + 1].placement_move]

C20_ChildrenArePossibleMoves ==
    /\ []((InDecision /\ ~Imperfect) =>
             \A n \in NodeIds :
                 children[n + 1] # <<>> =>
                     ChildMoves(n) = possible_moves(Replay(base_game, PathMoves(n))))
    /\ [][(InDecision /\ ~Imperfect) =>
             \A n \in NodeIds :
                 children[n + 1] # <<>> => children'[n + 1] = children[n + 1]]_vars

\* A node below the root has been expanded and the decision has gone on for
\* another iteration.
C20_Witness ==
    /\ ~Imperfect
    /\ pc = "loop"
    /\ \E n \in NodeIds :
          /\ n # root
          /\ Len(children[n + 1]) >= 2
          /\ \E c \in SeqToSet(children[n + 1]) : Visits(c) >= 1
          /\ Visits(n) >= 3

(***************************************************************************)
(* C21.  In every iteration that adds children, the children are added to  *)
(* exactly one node, the node where selection stopped, at the end of its   *)
(* child list, and the last node of the traversal is one of the children   *)
(* added in that iteration: in the expansion of a leaf and in the          *)
(* reconciliation of an imperfect-information game alike.                  *)
(***************************************************************************)
C21_ChildrenAddedToOneNode ==
    [][(InDecision /\ children' # children) =>
          LET stop == Last(selected).id
              added == Len(nodes)..(Len(nodes') - 1)
          IN /\ Len(nodes') > Len(nodes)
             /\ Len(children') = Len(nodes')
             /\ \A n \in NodeIds \ {stop} : children'[n + 1] = children[n + 1]
             /\ children'[stop + 1] =
                    children[stop + 1] \o
                        [i \in 1..(Len(nodes') - Len(nodes)) |-> Len(nodes) + i - 1]
             /\ \A n \in added : children'[n + 1] = <<>>
             /\ Len(selected') = Len(selected) + 1
             /\ SubSeq(selected', 1, Len(selected)) = selected
             /\ Last(selected').id \in added
             /\ pc' \in {"rollout", "backprop"}]_vars

\* The root of an imperfect-information decision, which had children, has
\* been given more, and the traversal ends in one of the new ones.
C21_Witness ==
    /\ Imperfect
    /\ Expanded
    /\ iter >= 1
    /\ pending_move_diff.some
    /\ Len(nodes) > Len(prev_nodes)
    /\ Len(children[root + 1]) > Len(nodes) - Len(prev_nodes)
    /\ Last(selected).id >= Len(prev_nodes)

(***************************************************************************)
(* C22.  In one iteration each node on the traversal (root included) has   *)
(* its visits increased by exactly 1, by backpropagation, and every node   *)
(* not on the traversal keeps its visits and score; selection, expansion   *)
(* and rollout change no node's visits or score (a node they create has    *)
(* visits 0 and score 0); visits never decrease.                           *)
(***************************************************************************)
OnPath(n) == \E j \in 1..Len(selected) : selected[j].id = n

PathEntries(n) == Cardinality({j \in 1..Len(selected) : selected[j].id = n})

C22_OnlyBackpropagationChangesStatistics ==
    [][InDecision =>
          /\ Len(nodes') >= Len(nodes)
          /\ \A n \in NodeIds : nodes'[n + 1].visits >= Visits(n)
          /\ \A n \in Len(nodes)..(Len(nodes') - 1) :
                 nodes'[n + 1].visits = 0 /\ nodes'[n + 1].score = 0
          /\ IF pc = "backprop"
             THEN /\ Len(nodes') = Len(nodes)
                  /\ \A n \in NodeIds :
                         IF OnPath(n)
                         THEN /\ PathEntries(n) = 1
                              /\ nodes'[n + 1].visits = Visits(n) + 1
                         ELSE nodes'[n + 1] = nodes[n + 1]
                  /\ OnPath(root)
             ELSE \A n \in NodeIds : nodes'[n + 1] = nodes[n + 1]]_vars

\* An iteration with a traversal of three nodes has been backpropagated in a
\* tree that holds visited nodes off the traversal.
C22_Witness ==
    /\ Backpropagated
    /\ Len(selected) >= 3
    /\ \E n \in NodeIds : ~OnPath(n) /\ Visits(n) >= 1 /\ nodes[n + 1] = prev_nodes[n + 1]
    /\ \A j \in 1..Len(selected) :
           Visits(selected[j].id) = prev_nodes[selected[j].id + 1].visits + 1

(***************************************************************************)
(* The tree driven directly: besides the decisions of Spec, a caller that  *)
(* holds a tree made by MctsTree::new and calls add_child with any parent  *)
(* index, in range or not.  place_log holds the last call: its arguments   *)
(* and the Option it returned.                                             *)
(***************************************************************************)
TreeBase == GridGame(<<0, 0, 0, 0, 0, 0, 0, 0, 0>>, TRUE)

TreeMoves == {0, 4}

TreeParents == 0..(MaxTreeNodes + 1)

InitTreeCaller ==
    /\ base_game = TreeBase
    /\ player_id = TRUE
    /\ iterations = 0
    /\ nodes = tree_new(base_game).nodes
    /\ children = tree_new(base_game).children
    /\ iter = 0
    /\ pc = "tree"
    /\ game = base_game
    /\ selected = <<>>
    /\ pending_move_diff = NoPending
    /\ acc_score = 0
    /\ result = NoResult
    /\ scan = <<>>
    /\ place_log = <<>>
    /\ prev_nodes = nodes
    /\ calls = 0
    /\ terminated = FALSE

InitTree == Init \/ InitTreeCaller

AddChildCall ==
    /\ pc = "tree"
    /\ Len(nodes) <= MaxTreeNodes
    /\ \E node \in TreeParents, m \in TreeMoves :
          LET t == add_child([nodes |-> nodes, children |-> children], node, m)
          IN /\ Len(t.nodes) <= MaxTreeNodes
             /\ nodes' = t.nodes
             /\ children' = t.children
             /\ place_log' = <<[phase |-> "add_child", parent |-> node, move |-> m,
                                returned |-> add_child_id([nodes |-> nodes,
                                                           children |-> children],
                                                          node)]>>
    /\ prev_nodes' = nodes
    /\ UNCHANGED <<base_game, player_id, iterations, iter, pc, game, selected,
                   pending_move_diff, acc_score, result, scan>>
    /\ UNCHANGED <<calls, terminated>>

NextTree == Next \/ AddChildCall

SpecTree == InitTree /\ [][NextTree]_vars

TreeCaller == pc = "tree"

HasTree == pc # "caller"

Parents(ch, n) == {m \in 0..(Len(ch) - 1) : Contains(ch[m + 1], n)}

Occurrences(q, n) == Cardinality({i \in 1..Len(q) : q[i] = n})

\* How many entries of all the child lists together hold n.
TimesListed(ch, n) == SumSeq([m \in 1..Len(ch) |-> Occurrences(ch[m], n)])

(***************************************************************************)
(* C24.  In every tree state node 0 exists and is in no child list, every  *)
(* other node index is in exactly one child list and exactly once there,   *)
(* every child index is greater than its parent's index, and the parent of *)
(* a node is the same in every later state.                                *)
(***************************************************************************)
C24_TreeShape ==
    /\ [](HasTree =>
            /\ Len(nodes) >= 1
            /\ Len(children) = Len(nodes)
            /\ TimesListed(children, root) = 0
            /\ \A n \in NodeIds \ {root} : TimesListed(children, n) = 1
            /\ \A m \in NodeIds : \A i \in 1..Len(children[m + 1]) :
                   children[m + 1][i] \in NodeIds /\ children[m + 1][i] > m)
    /\ [][HasTree =>
            \A n \in NodeIds \ {root} : Parents(children', n) = Parents(children, n)]_vars

\* A tree of a decision with three levels: a root with two children or more
\* and a grandchild.
C24_Witness ==
    /\ InDecision
    /\ Len(children[root + 1]) >= 2
    /\ \E n \in NodeIds : Parents(children, n) # {} /\ Parents(children, n) # {root}

(***************************************************************************)
(* C25.  On every step, an add_child call or a step of a search iteration, *)
(* each node's child list before the step is a prefix of its list after    *)
(* it, each node keeps its move, and the node collection and the child     *)
(* table do not shrink; so every earlier list is a prefix of every later.  *)
(***************************************************************************)
C25_ChildListsOnlyGrow ==
    [][HasTree =>
          /\ Len(nodes') >= Len(nodes)
          /\ Len(children') >= Len(children)
          /\ \A n \in NodeIds :
                 /\ Len(children'[n + 1]) >= Len(children[n + 1])
                 /\ SubSeq(children'[n + 1], 1, Len(children[n + 1])) = children[n + 1]
                 /\ nodes'[n + 1].placement_move = nodes[n + 1].placement_move]_vars

\* add_child has just appended to a child list that held a child already.
C25_Witness ==
    /\ TreeCaller
    /\ Len(place_log) = 1
    /\ place_log[1].returned.some
    /\ Len(children[place_log[1].parent + 1]) >= 2
    /\ Last(children[place_log[1].parent + 1]) = Len(nodes) - 1

(***************************************************************************)
(* C26.  add_child with a parent index out of range returns None and       *)
(* leaves the tree as it was; with a parent index in range it returns the  *)
(* previous node count, an index no node had, appends it at the end of the *)
(* parent's child list, leaves every other list and node alone, and        *)
(* creates the node with the move given, score 0, visits 0 and an empty    *)
(* child list; the node list and the child table have the same length.     *)
(***************************************************************************)
C26_AddChild ==
    [][TreeCaller =>
          LET call == place_log'[1]
              old == Len(nodes)
          IN /\ Len(nodes') = Len(children')
             /\ call.parent >= old =>
                    /\ ~call.returned.some
                    /\ nodes' = nodes
                    /\ children' = children
             /\ call.parent < old =>
                    /\ call.returned.some
                    /\ call.returned.v = old
                    /\ call.returned.v \notin NodeIds
                    /\ Len(nodes') = old + 1
                    /\ SubSeq(nodes', 1, old) = nodes
                    /\ nodes'[old + 1] = [placement_move |-> call.move, score |-> 0,
                                          visits |-> 0]
                    /\ children'[old + 1] = <<>>
                    /\ children'[call.parent + 1] = Append(children[call.parent + 1], old)
                    /\ \A n \in NodeIds \ {call.parent} :
                           children'[n + 1] = children[n + 1]]_vars

\* A call with a parent index out of range has returned None on a tree that
\* earlier calls had grown.
C26_Witness ==
    /\ TreeCaller
    /\ Len(place_log) = 1
    /\ ~place_log[1].returned.some
    /\ place_log[1].parent >= Len(nodes)
    /\ Len(nodes) >= 3
    /\ nodes = prev_nodes

(***************************************************************************)
(* C27.  In each game, while it has not terminated, place_move(m) succeeds *)
(* for every m that possible_moves() holds; in Uno this includes           *)
(* ActionDraw and the penalty draws when the draw pile is empty or nearly  *)
(* empty.                                                                  *)
(***************************************************************************)
C27_LegalMoveSucceeds ==
    (CallMade /\ ~LastCall.after_end /\ LastCall.legal) => LastCall.ok

(***************************************************************************)
(* C28.  Grid game: a successful place_move returns Win exactly when some  *)
(* row, column or diagonal of the board after the move holds three marks   *)
(* of one player, Draw exactly when no line does and the board is full,    *)
(* and Continue otherwise; the ended flag is set exactly when the outcome  *)
(* is Win or Draw, and the player on turn changes exactly when it is       *)
(* Continue.                                                               *)
(***************************************************************************)
Lines ==
    {<<0, 1, 2>>, <<3, 4, 5>>, <<6, 7, 8>>, <<0, 3, 6>>, <<1, 4, 7>>, <<2, 5, 8>>,
     <<0, 4, 8>>, <<2, 4, 6>>}

HasLine(b) ==
    \E l \in Lines :
        b[l[1] + 1] # 0 /\ b[l[2] + 1] = b[l[1] + 1] /\ b[l[3] + 1] = b[l[1] + 1]

BoardFull(b) == \A i \in 1..9 : b[i] # 0

C28_GridOutcome ==
    (GridCaller /\ Len(place_log) = 1 /\ LastCall.ok) =>
        /\ LastCall.state \in {"Win", "Draw", "Continue"}
        /\ LastCall.state = "Win" <=> HasLine(game.board)
        /\ LastCall.state = "Draw" <=> (~HasLine(game.board) /\ BoardFull(game.board))
        /\ game.game_ended <=> LastCall.state \in {"Win", "Draw"}
        /\ (game.first_player_turn # LastCall.before.first_player_turn)
               <=> LastCall.state = "Continue"

\* The ninth mark has filled the board without a line: a Draw.
C28_Witness ==
    /\ GridCaller
    /\ Len(place_log) = 1
    /\ LastCall.ok
    /\ LastCall.state = "Draw"
    /\ BoardFull(game.board)
    /\ game.game_ended

(***************************************************************************)
(* C29.  Uno: for every card type, the copies in the deck, in all players' *)
(* hands and in card_purgatory together number what they numbered when the *)
(* game was constructed, after any sequence of place_move calls,           *)
(* successful or failing.                                                  *)
(***************************************************************************)
UnoCaller == pc = "caller" /\ game.kind = "uno"

CardTotal(g, c) ==
    g.deck[c]
    + SumSeq([p \in 1..Len(g.player_cards) |-> g.player_cards[p][c]])
    + Cardinality({i \in 1..Len(g.card_purgatory) : g.card_purgatory[i] = c})

C29_CardsConserved ==
    UnoCaller => \A c \in DOMAIN game.deck : CardTotal(game, c) = CardTotal(base_game, c)

(***************************************************************************)
(* The steps a decision of the grid game still has before it: the passes   *)
(* of the for loop not yet begun, and within a pass two steps for every    *)
(* empty cell of the cloned board plus the steps that lead from one phase  *)
(* to the next.                                                            *)
(***************************************************************************)
GridEngine == base_game.kind = "grid" /\ pc # "caller"

RolloutMoves == Cardinality({j \in 1..Len(place_log) : place_log[j].phase = "rollout"})

InIteration == pc \in {"select", "expand", "rollout", "backprop"}

PhaseSteps(p, g) ==
    CASE p = "loop" -> 23
      [] p = "select" -> 2 * Cardinality(EmptyCells(g)) + 4
      [] p = "expand" -> 2 * Cardinality(EmptyCells(g)) + 3
      [] p = "rollout" -> 2 * Cardinality(EmptyCells(g)) + 2
      [] p = "backprop" -> 1
      [] OTHER -> 0

StepsLeft(p, g, i) == 30 * (iterations - i) + PhaseSteps(p, g)

(***************************************************************************)
(* C23.  For the grid game best_move with budget N ends after exactly N    *)
(* iterations: every step of a decision lowers a count of the steps left   *)
(* that never falls below 0, so each iteration ends and so does the        *)
(* decision; the loop counter stays within the budget and moves on exactly *)
(* at a backpropagation; the moves applied in one iteration number at most *)
(* the empty cells of the base position, hence a rollout applies at most   *)
(* 9; at the return the root holds exactly N visits.  With N = 0 the       *)
(* decision ends in the panic of best_descendant, and in no other case.    *)
(***************************************************************************)
C23_GridDecisionEndsAfterBudget ==
    /\ [](GridEngine =>
            /\ iter <= iterations
            /\ InIteration => iter < iterations
            /\ Len(place_log) <= Cardinality(EmptyCells(base_game))
            /\ RolloutMoves <= 9
            /\ pc = "done" => iter = iterations /\ Visits(root) = iterations
            /\ pc = "panic" => iterations = 0 /\ result.at = "best_descendant")
    /\ [][GridEngine =>
            /\ StepsLeft(pc', game', iter') < StepsLeft(pc, game, iter)
            /\ StepsLeft(pc', game', iter') >= 0
            /\ iter' \in {iter, iter + 1}
            /\ iter' = iter + 1 <=> pc = "backprop"]_vars

\* A decision with the whole budget has returned, and its last iteration
\* held a rollout of two moves or more.
C23_Witness ==
    /\ GridEngine
    /\ pc = "done"
    /\ iterations = MaxIter
    /\ Visits(root) = MaxIter
    /\ RolloutMoves >= 2

\* uct is evaluated with total_visits >= 1 only: a node with children was
\* backpropagated through when it was expanded.
ParentVisited ==
    pc = "loop" => \A n \in NodeIds : Len(children[n + 1]) > 0 => Visits(n) >= 1

====
